---- MODULE Spec2Model ----
(***************************************************************************)
(* proxydialer: a local HTTP/CONNECT relay in front of one SOCKS5 proxy,   *)
(* with hot reload of its configuration file (src/main.go).                *)
(*                                                                         *)
(* Strings are sequences of byte values, so that fmt.Sprintf and the       *)
(* FNV-1a digest are computed as the code computes them.  A uint32 is the  *)
(* pair <<high 16 bits, low 16 bits>>.                                      *)
(***************************************************************************)
EXTENDS Integers, Sequences, FiniteSets, TLC

VARIABLES
    \* ---- the build ----
    loopVarPerIter,  \* TRUE: Go >= 1.22 range semantics (a fresh conf per iteration)
    \* ---- process, configuration file, watcher (main.go:254-330) ----
    proc,            \* "boot" | "running" | "panic" | "fatal"
    file,            \* content of the configuration file
    writes,          \* number of writes made to the file so far
    events,          \* fsnotify Write events not yet taken by the watch goroutine
    wpc,             \* watch goroutine: "off" | "select" | "sleep" | "notify"
    rl,              \* reload goroutine: its pc and its locals nextDialerConfig/nextProxyConfig
    dialerConfig,    \* main's dialerConfig (the recorded running generation)
    proxyConfig,     \* main's proxyConfig  (the recorded running generation)
    instances,       \* the runServer calls made so far, in order
    history,         \* what each reload attempt met, in order
    lastDial,        \* the latest dial made by a handler of an instance
    \* ---- one request in a handler (main.go:121-201) ----
    h,               \* the handler: pc, method, the ResponseWriter, bufRW
    client,          \* the client connection and the client peer
    dest,            \* the upstream connection (dest_conn) and the upstream peer
    t1,              \* transfer(dest_conn, clientReader)
    t2,              \* transfer(client_conn, dest_conn)
    \* ---- getProxyConfig applied to one file ----
    selIn,
    selOut,
    \* ---- the two fingerprints applied to a pair of proxy endpoints ----
    fpIn,
    fpOut,
    \* ---- the write events of one edit, as the watch goroutine meets them ----
    burst

lifeVars  == <<proc, file, writes, events, wpc, rl, dialerConfig, proxyConfig,
               instances, history, lastDial>>
relayVars == <<h, client, dest, t1, t2>>
selVars   == <<selIn, selOut, fpIn, fpOut>>
watchVars == <<burst>>
vars      == <<loopVarPerIter, lifeVars, relayVars, selVars, watchVars>>

----------------------------------------------------------------------------
(* Bounds *)

MaxProxies == 3   \* longest proxies list of a configuration in SpecSelect
MaxWrites  == 2   \* writes to the configuration file after startup
MaxBytes   == 2   \* bytes each peer of a tunnel sends
MaxFieldLen == 2  \* longest username and password in SpecFingerprint

----------------------------------------------------------------------------
(* Strings and formatting *)

RECURSIVE Dec(_)
\* fmt's %d of a non-negative int
Dec(n) == IF n < 10 THEN <<48 + n>> ELSE Dec(n \div 10) \o <<48 + (n % 10)>>

sSocks5 == <<115, 111, 99, 107, 115, 53>>      \* "socks5"
sHttp   == <<104, 116, 116, 112>>              \* "http"
sEmpty  == <<>>                                \* ""
sHostL  == <<108>>                             \* "l"
sHostP  == <<112>>                             \* "p"
sUser   == <<117>>                             \* "u"
sPass   == <<119>>                             \* "w"
sColon  == <<58>>                              \* ":"
sAt     == <<64>>                              \* "@"
sSep    == <<47, 47, 58>>                      \* "//:"

SOCKS5 == sSocks5

----------------------------------------------------------------------------
(* getHash: 32-bit FNV-1a *)

RECURSIVE Xor(_, _, _)
\* bitwise exclusive or of the low `bits` bits of a and b
Xor(a, b, bits) ==
    IF bits = 0 THEN 0
    ELSE (((a % 2) + (b % 2)) % 2) + 2 * Xor(a \div 2, b \div 2, bits - 1)

fnvOffset32 == <<33052, 40389>>    \* 0x811c9dc5
fnvPrimeHi  == 256                 \* 0x01000193 = 256 * 2^16 + 403
fnvPrimeLo  == 403

\* one byte: hash ^= b; hash *= prime (mod 2^32)
fnvStep(hash, b) ==
    LET hi == hash[1]
        lo == (hash[2] - (hash[2] % 256)) + Xor(hash[2] % 256, b, 8)
        pl == lo * fnvPrimeLo
    IN  << ((hi * fnvPrimeLo) + (lo * fnvPrimeHi) + (pl \div 65536)) % 65536,
           pl % 65536 >>

RECURSIVE fnvWrite(_, _, _)
fnvWrite(hash, s, i) ==
    IF i > Len(s) THEN hash ELSE fnvWrite(fnvStep(hash, s[i]), s, i + 1)

getHash(s) == fnvWrite(fnvOffset32, s, 1)

dialerConfString(config) == config.Server \o sColon \o Dec(config.Port)

getDialerConfHash(config) == getHash(dialerConfString(config))

proxyConfString(config) ==
    config.Protocol \o sSep \o config.Username \o sColon \o config.Password
        \o sAt \o config.Server \o sColon \o Dec(config.Port)

getProxyConfHash(config) == getHash(proxyConfString(config))

----------------------------------------------------------------------------
(* Configuration values *)

DialerConfig(server, port) == [Server |-> server, Port |-> port]

ProxyConf(protocol, server, port, username, password, use) ==
    [Protocol |-> protocol, Server |-> server, Port |-> port,
     Username |-> username, Password |-> password, Use |-> use]

Config(version, dialer, proxies) ==
    [Version |-> version, Dialer |-> dialer, Proxies |-> proxies]

\* the zero value of ProxyConf, the value of the loop variable before the loop
zeroProxyConf == ProxyConf(sEmpty, sEmpty, 0, sEmpty, sEmpty, FALSE)

\* a file os.ReadFile cannot read, and one yaml.Unmarshal rejects
Unreadable == [Unreadable |-> TRUE]
Malformed  == [Malformed |-> TRUE]

IsConfig(f) == f # Unreadable /\ f # Malformed

----------------------------------------------------------------------------
(* parseConfig and getProxyConfig *)

\* parseConfig: panics when the file cannot be read or parsed
parseConfig(configFile) ==
    IF IsConfig(configFile)
    THEN [panic |-> FALSE, conf |-> configFile]
    ELSE [panic |-> TRUE, conf |-> Config(sEmpty, DialerConfig(sEmpty, 0), <<>>)]

RECURSIVE rangeProxies(_, _, _, _)
\* the loop of getProxyConfig from index i on.  st.nil: proxyConf == nil;
\* st.taken: the value of the element that was current when proxyConf was last
\* assigned; st.conf: the loop variable.  With one loop variable for the whole
\* loop (Go < 1.22) proxyConf points at the loop variable itself.
rangeProxies(proxies, i, st, perIter) ==
    IF i > Len(proxies) THEN
        [panic |-> FALSE, nil |-> st.nil,
         proxy |-> IF perIter THEN st.taken ELSE st.conf]
    ELSE IF proxies[i].Use /\ proxies[i].Protocol # SOCKS5 THEN
        [panic |-> TRUE, nil |-> TRUE, proxy |-> zeroProxyConf]
    ELSE IF proxies[i].Use THEN
        rangeProxies(proxies, i + 1,
                     [nil |-> FALSE, taken |-> proxies[i], conf |-> proxies[i]], perIter)
    ELSE
        rangeProxies(proxies, i + 1,
                     [nil |-> st.nil, taken |-> st.taken, conf |-> proxies[i]], perIter)

\* proxyConf = &conf outside the test of conf.Use: the last entry, enabled or not
getProxyConfig_ignoresUse(configFile, perIter) ==
    LET p == parseConfig(configFile) IN
    IF p.panic THEN
        [panic |-> TRUE, dialer |-> p.conf.Dialer, nil |-> TRUE, proxy |-> zeroProxyConf]
    ELSE
        [panic |-> FALSE, dialer |-> p.conf.Dialer, nil |-> p.conf.Proxies = <<>>,
         proxy |-> IF p.conf.Proxies = <<>> THEN zeroProxyConf
                   ELSE p.conf.Proxies[Len(p.conf.Proxies)]]

\* the protocol tested after the loop, on the entry the loop ended with
getProxyConfig_checksSelected(configFile, perIter) ==
    LET p == parseConfig(configFile)
        used == {k \in DOMAIN p.conf.Proxies : p.conf.Proxies[k].Use}
        last == CHOOSE k \in used : \A j \in used : j <= k
    IN
    IF p.panic THEN
        [panic |-> TRUE, dialer |-> p.conf.Dialer, nil |-> TRUE, proxy |-> zeroProxyConf]
    ELSE IF used = {} THEN
        [panic |-> FALSE, dialer |-> p.conf.Dialer, nil |-> TRUE, proxy |-> zeroProxyConf]
    ELSE IF p.conf.Proxies[last].Protocol # SOCKS5 THEN
        [panic |-> TRUE, dialer |-> p.conf.Dialer, nil |-> TRUE, proxy |-> zeroProxyConf]
    ELSE
        [panic |-> FALSE, dialer |-> p.conf.Dialer, nil |-> FALSE,
         proxy |-> p.conf.Proxies[last]]

getProxyConfig(configFile, perIter) ==
    LET p == parseConfig(configFile) IN
    IF p.panic THEN
        [panic |-> TRUE, dialer |-> p.conf.Dialer, nil |-> TRUE, proxy |-> zeroProxyConf]
    ELSE
        LET r == rangeProxies(p.conf.Proxies, 1,
                     [nil |-> TRUE, taken |-> zeroProxyConf, conf |-> zeroProxyConf],
                     perIter)
        IN  [panic |-> r.panic, dialer |-> p.conf.Dialer, nil |-> r.nil,
             proxy |-> IF r.nil THEN zeroProxyConf ELSE r.proxy]

----------------------------------------------------------------------------
(* The configuration files the model writes *)

sV1 == <<49>>   \* "1"
sV2 == <<50>>   \* "2"

dialerL  == DialerConfig(sHostL, 8080)
dialerL2 == DialerConfig(sHostL, 8081)
pxA    == ProxyConf(SOCKS5, sHostP, 1080, sUser, sPass, TRUE)
pxB    == ProxyConf(SOCKS5, sHostP, 1081, sUser, sPass, TRUE)
pxOff  == ProxyConf(SOCKS5, sHostP, 1082, sEmpty, sEmpty, FALSE)
pxHttp == ProxyConf(sHttp, sHostP, 1080, sUser, sPass, TRUE)

cfgA      == Config(sV1, dialerL, <<pxA>>)
cfgA2     == Config(sV2, dialerL, <<pxA>>)          \* only the version differs
cfgB      == Config(sV1, dialerL, <<pxB>>)          \* only proxy.port differs
cfgTail   == Config(sV1, dialerL, <<pxA, pxOff>>)   \* a disabled entry after the enabled one
cfgNone   == Config(sV1, dialerL, <<pxOff>>)        \* no entry with use = true
cfgHttp   == Config(sV1, dialerL, <<pxHttp>>)       \* the enabled entry is not socks5
cfgDialer == Config(sV1, dialerL2, <<pxA>>)         \* only dialer.port differs

Files == {cfgA, cfgA2, cfgB, cfgTail, cfgNone, cfgHttp, cfgDialer, Unreadable}

\* the files the process is started on
BootFiles == {cfgA, cfgTail, cfgNone, cfgHttp, Unreadable}

----------------------------------------------------------------------------
(* Idle values: what a specification gives the variables it does not use *)

NoDial     == [inst |-> 0, gen |-> 0, via |-> [addr |-> sEmpty]]
NoConn     == [st |-> "none", broken |-> FALSE, recv |-> <<>>, out |-> <<>>,
               rd |-> 0, eof |-> FALSE]
LifeIdle   == /\ proc = "off" /\ file = Unreadable /\ writes = 0 /\ events = 0
              /\ wpc = "off" /\ rl = [pc |-> "off"]
              /\ dialerConfig = DialerConfig(sEmpty, 0) /\ proxyConfig = zeroProxyConf
              /\ instances = <<>> /\ history = <<>> /\ lastDial = NoDial
RelayIdle  == /\ h = [pc |-> "off"] /\ client = NoConn /\ dest = NoConn
              /\ t1 = [pc |-> "off", b |-> 0] /\ t2 = [pc |-> "off", b |-> 0]
SelIdle    == selIn = Unreadable /\ selOut = [done |-> FALSE]
FpIdle     == fpIn = <<zeroProxyConf, zeroProxyConf>> /\ fpOut = [done |-> FALSE]
WatchIdle  == burst = [woke |-> FALSE, late |-> FALSE]

----------------------------------------------------------------------------
(* runServer: one Server Instance *)

\* lines 214-220: the SOCKS5 address and the optional credentials
proxyAddr(pc) == pc.Server \o sColon \o Dec(pc.Port)
proxyAuth(pc) ==
    IF pc.Username # sEmpty /\ pc.Password # sEmpty
    THEN [set |-> TRUE, User |-> pc.Username, Password |-> pc.Password]
    ELSE [set |-> FALSE, User |-> sEmpty, Password |-> sEmpty]

\* line 222: proxy.SOCKS5 only records the address and the credentials (it
\* connects to nothing and returns no error)
establishSOCKS5Proxy(socks5Addr, auth) == [addr |-> socks5Addr, auth |-> auth]

\* line 229
serverAddr(dc) == dc.Server \o sColon \o Dec(dc.Port)

\* go runServer(*dialerConfig, *proxyConfig, stop): the arguments are copied
newInstance(dc, pc) ==
    [dialerConfig |-> dc, proxyConfig |-> pc,
     pc |-> "setup",          \* "setup" | "listen" | "serving" | "returned"
     sd |-> "none",           \* the goroutine of lines 244-247: "none" | "waiting" | "shutdown" | "done"
     dialer |-> establishSOCKS5Proxy(sEmpty, proxyAuth(zeroProxyConf)),
     Addr |-> sEmpty,
     listener |-> "none",     \* "none" | "bound" | "failed" | "closed"
     stops |-> 0]             \* stop signals received

Insts == DOMAIN instances

\* a handler that reads main's proxyConfig when it dials, instead of the
\* dialer it was built with
handlerDialer_shared(i) ==
    establishSOCKS5Proxy(proxyAddr(proxyConfig), proxyAuth(proxyConfig))

\* the dialer the handlers of instance i were built with (lines 227-228)
handlerDialer(i) == instances[i].dialer

\* net.Listen fails while another listener of the process holds the address
addrInUse(i) ==
    \E j \in Insts : j # i /\ instances[j].listener = "bound"
                     /\ instances[j].Addr = instances[i].Addr

\* a runServer that starts no goroutine receiving from stop
withoutStopReceiver(inst) == inst

\* lines 244-247: go func() { <-stop; server.Shutdown(...) }()
withStopReceiver(inst) == [inst EXCEPT !.sd = "waiting"]

\* lines 213-250: everything before ListenAndServe, the go statement included
RunServerSetup(i) ==
    /\ proc = "running"
    /\ instances[i].pc = "setup"
    /\ instances' = [instances EXCEPT ![i] = withStopReceiver([@ EXCEPT
          !.dialer = establishSOCKS5Proxy(proxyAddr(instances[i].proxyConfig),
                                          proxyAuth(instances[i].proxyConfig)),
          !.Addr = serverAddr(instances[i].dialerConfig),
          !.pc = "listen"])]
    /\ UNCHANGED <<loopVarPerIter, proc, file, writes, events, wpc, rl, dialerConfig,
                   proxyConfig, history, lastDial, relayVars, selVars, watchVars>>

\* line 251: server.ListenAndServe(), its error dropped.  It returns at once
\* when Shutdown has already run, returns when the bind fails, and serves
\* otherwise.
RunServerListen(i) ==
    /\ proc = "running"
    /\ instances[i].pc = "listen"
    /\ instances' = [instances EXCEPT ![i] =
          IF instances[i].sd = "done" THEN [@ EXCEPT !.pc = "returned"]
          ELSE IF addrInUse(i) THEN [@ EXCEPT !.pc = "returned", !.listener = "failed"]
          ELSE [@ EXCEPT !.pc = "serving", !.listener = "bound"]]
    /\ UNCHANGED <<loopVarPerIter, proc, file, writes, events, wpc, rl, dialerConfig,
                   proxyConfig, history, lastDial, relayVars, selVars, watchVars>>

\* a Shutdown that closes the connection whether the server tracks it or not
shutdownConn_hijackedToo(c, idle) == [c EXCEPT !.st = IF @ = "none" THEN "none" ELSE "closed"]

\* line 246: Shutdown closes the connections the server tracks that are idle.
\* A hijacked connection has left the server's bookkeeping (line 136), and a
\* connection whose handler is running is waited for, not closed.
shutdownConn(c, idle) ==
    IF idle THEN [c EXCEPT !.st = IF @ = "none" THEN "none" ELSE "closed"] ELSE c

\* the client connection of instance i is idle: its handler has returned
\* without taking the connection over
idleConn(i) == lastDial.inst = i /\ h.pc = "done" /\ ~h.hijacked

\* line 246: server.Shutdown closes the listener, and Serve returns; the
\* upstream connection of a handler is none of the server's connections
ServerShutdown(i) ==
    /\ proc = "running"
    /\ instances[i].sd = "shutdown"
    /\ instances' = [instances EXCEPT ![i] =
          IF instances[i].listener = "bound"
          THEN [@ EXCEPT !.sd = "done", !.listener = "closed", !.pc = "returned"]
          ELSE [@ EXCEPT !.sd = "done"]]
    /\ client' = shutdownConn(client, idleConn(i))
    /\ UNCHANGED <<loopVarPerIter, proc, file, writes, events, wpc, rl, dialerConfig,
                   proxyConfig, history, lastDial, h, dest, t1, t2, selVars, watchVars>>

\* lines 232-239 with 123 and 184/191: a request accepted by instance i is
\* dialed through the dialer its handlers were built with.  gen is the number
\* of instances started when the dial is made.
ServeRequest(i) ==
    /\ proc = "running"
    /\ instances[i].pc = "serving"
    /\ lastDial' = [inst |-> i, gen |-> Len(instances), via |-> handlerDialer(i)]
    /\ UNCHANGED <<loopVarPerIter, proc, file, writes, events, wpc, rl, dialerConfig,
                   proxyConfig, instances, history, relayVars, selVars, watchVars>>

----------------------------------------------------------------------------
(* main: startup, the watch goroutine and the reload goroutine *)

\* what a reload attempt (or startup) meets in the file
met(f) ==
    LET r == getProxyConfig(f, loopVarPerIter) IN
    IF ~IsConfig(f) THEN "unparsed"
    ELSE IF r.panic THEN "protocol"
    ELSE IF r.nil THEN "none"
    ELSE "selected"

\* a comparison of the two pointers instead of the fingerprints
configChanged_pointers(nextDialer, nextProxy, curDialer, curProxy) == TRUE

\* lines 313-314: the comparison of the fingerprints
configChanged(nextDialer, nextProxy, curDialer, curProxy) ==
    \/ getDialerConfHash(nextDialer) # getDialerConfHash(curDialer)
    \/ getProxyConfHash(nextProxy) # getProxyConfHash(curProxy)

rlWait == [pc |-> "wait"]

\* a change handled without the send on the stop channel
startWithoutStop(nextDialer, nextProxy) ==
    [pc |-> "start", nextDialerConfig |-> nextDialer, nextProxyConfig |-> nextProxy]

\* lines 315-316: on a change the goroutine first blocks in stop <- 1 and
\* starts the next instance after the send has been received
stopThenStart(nextDialer, nextProxy) ==
    [pc |-> "stop", nextDialerConfig |-> nextDialer, nextProxyConfig |-> nextProxy]

\* lines 284-293: the first getProxyConfig panics, or finds no proxy, or the
\* first instance is started; then lines 295-325 start the two goroutines
MainStart ==
    /\ proc = "boot"
    /\ LET r == getProxyConfig(file, loopVarPerIter) IN
       IF r.panic THEN
            /\ proc' = "panic"
            /\ UNCHANGED <<dialerConfig, proxyConfig, instances, wpc, rl>>
       ELSE IF r.nil THEN
            /\ proc' = "fatal"
            /\ UNCHANGED <<dialerConfig, proxyConfig, instances, wpc, rl>>
       ELSE
            /\ proc' = "running"
            /\ dialerConfig' = r.dialer
            /\ proxyConfig' = r.proxy
            /\ instances' = <<newInstance(r.dialer, r.proxy)>>
            /\ wpc' = "select"
            /\ rl' = rlWait
    /\ UNCHANGED <<loopVarPerIter, file, writes, events, history, lastDial,
                   relayVars, selVars, watchVars>>

\* the environment writes the file: one fsnotify Write event
WriteFile(c) ==
    /\ proc = "running"
    /\ writes < MaxWrites
    /\ file' = c
    /\ writes' = writes + 1
    /\ events' = events + 1
    /\ UNCHANGED <<loopVarPerIter, proc, wpc, rl, dialerConfig, proxyConfig,
                   instances, history, lastDial, relayVars, selVars, watchVars>>

\* lines 258-264: a Write event is taken; after the sleep the goroutine is at
\* notify <- 1
WatchEvent ==
    /\ proc = "running"
    /\ wpc = "select"
    /\ events > 0
    /\ events' = events - 1
    /\ wpc' = "notify"
    /\ UNCHANGED <<loopVarPerIter, proc, file, writes, rl, dialerConfig, proxyConfig,
                   instances, history, lastDial, relayVars, selVars, watchVars>>

\* line 265 with line 307: the unbuffered modify channel
ModifyHandoff ==
    /\ proc = "running"
    /\ wpc = "notify"
    /\ rl.pc = "wait"
    /\ wpc' = "select"
    /\ rl' = [pc |-> "parse"]
    /\ UNCHANGED <<loopVarPerIter, proc, file, writes, events, dialerConfig,
                   proxyConfig, instances, history, lastDial, relayVars, selVars, watchVars>>

\* lines 308-314 and 319-321: getProxyConfig and the decision.  A panic in
\* this goroutine is recovered nowhere: it ends the process.
ReloadParse ==
    /\ proc = "running"
    /\ rl.pc = "parse"
    /\ LET r == getProxyConfig(file, loopVarPerIter)
           e == [met |-> met(file), changed |-> FALSE]
       IN
       IF r.panic THEN
            /\ proc' = "panic"
            /\ history' = Append(history, e)
            /\ UNCHANGED rl
       ELSE IF r.nil THEN
            /\ rl' = rlWait
            /\ history' = Append(history, e)
            /\ UNCHANGED proc
       ELSE IF configChanged(r.dialer, r.proxy, dialerConfig, proxyConfig) THEN
            /\ rl' = stopThenStart(r.dialer, r.proxy)
            /\ history' = Append(history, [e EXCEPT !.changed = TRUE])
            /\ UNCHANGED proc
       ELSE
            /\ rl' = rlWait
            /\ history' = Append(history, e)
            /\ UNCHANGED proc
    /\ UNCHANGED <<loopVarPerIter, file, writes, events, wpc, dialerConfig,
                   proxyConfig, instances, lastDial, relayVars, selVars, watchVars>>

\* line 315 with line 245: the unbuffered stop channel, received by one of
\* the goroutines waiting on it
StopHandoff(i) ==
    /\ proc = "running"
    /\ rl.pc = "stop"
    /\ instances[i].sd = "waiting"
    /\ instances' = [instances EXCEPT ![i].sd = "shutdown",
                                      ![i].stops = instances[i].stops + 1]
    /\ rl' = [rl EXCEPT !.pc = "start"]
    /\ UNCHANGED <<loopVarPerIter, proc, file, writes, events, wpc, dialerConfig,
                   proxyConfig, history, lastDial, relayVars, selVars, watchVars>>

\* lines 316-318: the new instance is started and the selection recorded
ReloadStart ==
    /\ proc = "running"
    /\ rl.pc = "start"
    /\ instances' = Append(instances, newInstance(rl.nextDialerConfig, rl.nextProxyConfig))
    /\ dialerConfig' = rl.nextDialerConfig
    /\ proxyConfig' = rl.nextProxyConfig
    /\ rl' = rlWait
    /\ UNCHANGED <<loopVarPerIter, proc, file, writes, events, wpc, history, lastDial,
                   relayVars, selVars, watchVars>>

Init ==
    /\ loopVarPerIter \in BOOLEAN
    /\ proc = "boot"
    /\ file \in BootFiles
    /\ writes = 0 /\ events = 0
    /\ wpc = "off" /\ rl = [pc |-> "off"]
    /\ dialerConfig = DialerConfig(sEmpty, 0) /\ proxyConfig = zeroProxyConf
    /\ instances = <<>> /\ history = <<>> /\ lastDial = NoDial
    /\ RelayIdle /\ SelIdle /\ FpIdle /\ WatchIdle

Next ==
    \/ MainStart
    \/ \E c \in Files : WriteFile(c)
    \/ WatchEvent
    \/ ModifyHandoff
    \/ ReloadParse
    \/ \E i \in Insts : StopHandoff(i)
    \/ ReloadStart
    \/ \E i \in Insts : RunServerSetup(i)
    \/ \E i \in Insts : RunServerListen(i)
    \/ \E i \in Insts : ServerShutdown(i)
    \/ \E i \in Insts : ServeRequest(i)

Spec == Init /\ [][Next]_vars

----------------------------------------------------------------------------
(* The relay handler: one request, its two connections, the two copy loops *)

\* "HTTP/1.1 200 Connection established\r\n\r\n" (line 143)
Line200 ==
    <<72, 84, 84, 80, 47, 49, 46, 49, 32, 50, 48, 48, 32,
      67, 111, 110, 110, 101, 99, 116, 105, 111, 110, 32,
      101, 115, 116, 97, 98, 108, 105, 115, 104, 101, 100, 13, 10, 13, 10>>

\* A connection, seen from the relay.  st: "none" | "open" | "closed" (Close
\* called by the relay); broken: writes to the peer fail; recv: the bytes the
\* peer has received; out: the bytes the peer has sent; rd: how many of them
\* the relay has read; eof: the peer has closed its sending side.
openConn == [NoConn EXCEPT !.st = "open"]

pending(c) == Len(c.out) - c.rd

\* the k-th byte a peer sends: 128 + k from the client, k from the upstream
clientByte(k) == 128 + k
destByte(k)   == k

\* the ResponseWriter before anything is written
emptyW == [status |-> 0, headers |-> <<>>, body |-> "" ]

\* http.Error: the error headers, the status and the message
httpError(code) ==
    [status |-> code,
     headers |-> << <<"Content-Type", "text/plain; charset=utf-8">>,
                    <<"X-Content-Type-Options", "nosniff">> >>,
     body |-> "error"]

\* what the upstream answers to a forwarded request
Responses ==
    { [status |-> 200,
       headers |-> << <<"Set-Cookie", "a">>, <<"Set-Cookie", "b">> >>,
       body |-> "page"],
      [status |-> 404, headers |-> << <<"Server", "up">> >>, body |-> "missing"] }

noResp == [status |-> 0, headers |-> <<>>, body |-> ""]

\* lines 203-209: every value of src is added to dst
copyHeader(dst, src) == dst \o src

newHandler(method) ==
    [pc |-> "dial",          \* CONNECT: "dial" "hijack" "write" "go1" "go2" "done"
                             \* other:   "dial" "header" "status" "body" "done"
     method |-> method,
     dial |-> "none",        \* "none" | "ok" | "failed"
     hijacked |-> FALSE,
     bufW |-> <<>>,          \* bufRW's writer: written, not yet flushed
     w |-> emptyW,
     resp |-> noResp]

\* lines 125-128 of the CONNECT path: the dial failed
dialFailed_noReturn(hh) ==
    [hh EXCEPT !.dial = "failed", !.w = httpError(503), !.pc = "hijack"]

dialFailed(hh) ==
    [hh EXCEPT !.dial = "failed", !.w = httpError(503), !.pc = "done"]

\* net.Conn.Write of buf
connWrite(c, buf) == [c EXCEPT !.recv = @ \o buf]
canWrite(c) == c.st = "open" /\ ~c.broken

\* bufRW.Flush() dropped: the buffered bytes stay in bufRW
flush_missing(c, buf) == c

\* line 149: bufRW.Flush() writes the buffer to the client connection; its
\* error is dropped
flush(c, buf) == IF canWrite(c) THEN connWrite(c, buf) ELSE c

\* a Close that is forgotten
closeConn_leaks(c) == c

closeConn(c) == [c EXCEPT !.st = IF @ = "none" THEN "none" ELSE "closed"]

\* a transfer that leaves its destination open
closeDestination_skipped(c) == c

\* lines 163-165 and 166-168 of the deferred function of transfer
closeDestination(c) == closeConn(c)
closeSource(c) == closeConn(c)

tOff == [pc |-> "off", b |-> 0]   \* pc: "off" "read" "write" "defer" "defer2" "done"

\* ---- the handler, CONNECT ----

\* line 123 (and 184/191 for the other methods): the dial through the SOCKS5 dialer
HandlerDial ==
    /\ h.pc = "dial" /\ h.method = "CONNECT"
    /\ \/ /\ h' = [h EXCEPT !.dial = "ok", !.pc = "hijack"]
          /\ dest' = openConn
       \/ /\ h' = dialFailed(h)
          /\ UNCHANGED dest
    /\ UNCHANGED <<loopVarPerIter, lifeVars, selVars, watchVars, client, t1, t2>>

\* lines 130-141: the connection is taken over, or the writer is no Hijacker
\* (500), or Hijack fails (503); dest_conn is closed in both error cases
HandlerHijack ==
    /\ h.pc = "hijack"
    /\ \/ /\ h' = [h EXCEPT !.hijacked = TRUE, !.pc = "write"]
          /\ UNCHANGED dest
       \/ \E code \in {500, 503} :
            /\ h' = [h EXCEPT !.w = httpError(code), !.pc = "done"]
            /\ dest' = closeConn(dest)
    /\ UNCHANGED <<loopVarPerIter, lifeVars, selVars, watchVars, client, t1, t2>>

\* lines 143-149: the 200 line is written to bufRW and flushed; when the
\* write fails both connections are closed and the handler returns
HandlerRespond ==
    /\ h.pc = "write"
    /\ \/ /\ h' = [h EXCEPT !.pc = "go1"]
          /\ client' = flush(client, h.bufW \o Line200)
          /\ UNCHANGED dest
       \/ /\ h' = [h EXCEPT !.pc = "done"]
          /\ dest' = closeConn(dest)
          /\ client' = closeConn(client)
    /\ UNCHANGED <<loopVarPerIter, lifeVars, selVars, watchVars, t1, t2>>

\* line 156: go transfer(dest_conn, clientReader)
HandlerGo1 ==
    /\ h.pc = "go1"
    /\ h' = [h EXCEPT !.pc = "go2"]
    /\ t1' = [pc |-> "read", b |-> 0]
    /\ UNCHANGED <<loopVarPerIter, lifeVars, selVars, watchVars, client, dest, t2>>

\* line 157: go transfer(client_conn, dest_conn)
HandlerGo2 ==
    /\ h.pc = "go2"
    /\ h' = [h EXCEPT !.pc = "done"]
    /\ t2' = [pc |-> "read", b |-> 0]
    /\ UNCHANGED <<loopVarPerIter, lifeVars, selVars, watchVars, client, dest, t1>>

\* ---- the handler, every other method ----

\* lines 183-195: transport.RoundTrip dials through the dialer; a failed dial
\* or a failed exchange is answered 503
ForwardRoundTrip ==
    /\ h.pc = "dial" /\ h.method # "CONNECT"
    /\ \/ h' = [h EXCEPT !.dial = "failed", !.w = httpError(503), !.pc = "done"]
       \/ h' = [h EXCEPT !.dial = "ok", !.w = httpError(503), !.pc = "done"]
       \/ \E r \in Responses : h' = [h EXCEPT !.dial = "ok", !.resp = r, !.pc = "header"]
    /\ UNCHANGED <<loopVarPerIter, lifeVars, selVars, watchVars, client, dest, t1, t2>>

\* line 197
ForwardCopyHeader ==
    /\ h.pc = "header"
    /\ h' = [h EXCEPT !.w.headers = copyHeader(@, h.resp.headers), !.pc = "status"]
    /\ UNCHANGED <<loopVarPerIter, lifeVars, selVars, watchVars, client, dest, t1, t2>>

\* line 198
ForwardWriteHeader ==
    /\ h.pc = "status"
    /\ h' = [h EXCEPT !.w.status = h.resp.status, !.pc = "body"]
    /\ UNCHANGED <<loopVarPerIter, lifeVars, selVars, watchVars, client, dest, t1, t2>>

\* line 199 (and the deferred resp.Body.Close of line 196)
ForwardCopyBody ==
    /\ h.pc = "body"
    /\ h' = [h EXCEPT !.w.body = h.resp.body, !.pc = "done"]
    /\ UNCHANGED <<loopVarPerIter, lifeVars, selVars, watchVars, client, dest, t1, t2>>

\* ---- transfer(destination, source) ----

\* io.Copy reads: the next byte of the source, or EOF, or the error of a closed
\* connection.  The reader of bufRW may still hold bytes of a closed client
\* connection.
readStep(t, src, next, buffered) ==
    \/ /\ pending(src) > 0
       /\ src.st = "open" \/ buffered
       /\ t' = [pc |-> "write", b |-> next]
       /\ src' = [src EXCEPT !.rd = @ + 1]
    \/ /\ src.st # "open" \/ (pending(src) = 0 /\ src.eof)
       /\ t' = [t EXCEPT !.pc = "defer"]
       /\ UNCHANGED src

\* io.Copy writes what it read, or stops on the error
writeStep(t, dst) ==
    IF canWrite(dst)
    THEN t' = [pc |-> "read", b |-> 0] /\ dst' = connWrite(dst, <<t.b>>)
    ELSE t' = [t EXCEPT !.pc = "defer"] /\ UNCHANGED dst

T1Read ==
    /\ t1.pc = "read"
    /\ readStep(t1, client, clientByte(client.rd + 1), TRUE)
    /\ UNCHANGED <<loopVarPerIter, lifeVars, selVars, watchVars, h, dest, t2>>

T1Write ==
    /\ t1.pc = "write"
    /\ writeStep(t1, dest)
    /\ UNCHANGED <<loopVarPerIter, lifeVars, selVars, watchVars, h, client, t2>>

T1CloseDestination ==
    /\ t1.pc = "defer"
    /\ dest' = closeDestination(dest)
    /\ t1' = [t1 EXCEPT !.pc = "defer2"]
    /\ UNCHANGED <<loopVarPerIter, lifeVars, selVars, watchVars, h, client, t2>>

T1CloseSource ==
    /\ t1.pc = "defer2"
    /\ client' = closeSource(client)
    /\ t1' = [t1 EXCEPT !.pc = "done"]
    /\ UNCHANGED <<loopVarPerIter, lifeVars, selVars, watchVars, h, dest, t2>>

T2Read ==
    /\ t2.pc = "read"
    /\ readStep(t2, dest, destByte(dest.rd + 1), FALSE)
    /\ UNCHANGED <<loopVarPerIter, lifeVars, selVars, watchVars, h, client, t1>>

T2Write ==
    /\ t2.pc = "write"
    /\ writeStep(t2, client)
    /\ UNCHANGED <<loopVarPerIter, lifeVars, selVars, watchVars, h, dest, t1>>

T2CloseDestination ==
    /\ t2.pc = "defer"
    /\ client' = closeDestination(client)
    /\ t2' = [t2 EXCEPT !.pc = "defer2"]
    /\ UNCHANGED <<loopVarPerIter, lifeVars, selVars, watchVars, h, dest, t1>>

T2CloseSource ==
    /\ t2.pc = "defer2"
    /\ dest' = closeSource(dest)
    /\ t2' = [t2 EXCEPT !.pc = "done"]
    /\ UNCHANGED <<loopVarPerIter, lifeVars, selVars, watchVars, h, client, t1>>

\* ---- the two peers ----

ClientSends ==
    /\ h.method = "CONNECT"
    /\ ~client.eof /\ Len(client.out) < MaxBytes
    /\ client' = [client EXCEPT !.out = Append(@, clientByte(Len(@) + 1))]
    /\ UNCHANGED <<loopVarPerIter, lifeVars, selVars, watchVars, h, dest, t1, t2>>

\* the client closes its sending side, or goes away altogether
ClientCloses ==
    /\ h.method = "CONNECT"
    /\ ~client.eof
    /\ \E gone \in BOOLEAN : client' = [client EXCEPT !.eof = TRUE, !.broken = gone]
    /\ UNCHANGED <<loopVarPerIter, lifeVars, selVars, watchVars, h, dest, t1, t2>>

DestSends ==
    /\ dest.st # "none"
    /\ ~dest.eof /\ Len(dest.out) < MaxBytes
    /\ dest' = [dest EXCEPT !.out = Append(@, destByte(Len(@) + 1))]
    /\ UNCHANGED <<loopVarPerIter, lifeVars, selVars, watchVars, h, client, t1, t2>>

DestCloses ==
    /\ dest.st # "none"
    /\ ~dest.eof
    /\ \E gone \in BOOLEAN : dest' = [dest EXCEPT !.eof = TRUE, !.broken = gone]
    /\ UNCHANGED <<loopVarPerIter, lifeVars, selVars, watchVars, h, client, t1, t2>>

InitRelay ==
    /\ loopVarPerIter = TRUE
    /\ LifeIdle /\ SelIdle /\ FpIdle /\ WatchIdle
    /\ \E m \in {"CONNECT", "GET"} : h = newHandler(m)
    /\ client = openConn
    /\ dest = NoConn
    /\ t1 = tOff /\ t2 = tOff

HandlerNext ==
    \/ HandlerDial \/ HandlerHijack \/ HandlerRespond \/ HandlerGo1 \/ HandlerGo2
    \/ ForwardRoundTrip \/ ForwardCopyHeader \/ ForwardWriteHeader \/ ForwardCopyBody

T1Next == T1Read \/ T1Write \/ T1CloseDestination \/ T1CloseSource
T2Next == T2Read \/ T2Write \/ T2CloseDestination \/ T2CloseSource

NextRelay ==
    \/ HandlerNext
    \/ T1Next
    \/ T2Next
    \/ ClientSends \/ ClientCloses \/ DestSends \/ DestCloses

SpecRelay == InitRelay /\ [][NextRelay]_vars

\* every goroutine that can take a step eventually takes one; the peers owe nothing
SpecRelayFair ==
    /\ SpecRelay
    /\ WF_vars(HandlerNext) /\ WF_vars(T1Next) /\ WF_vars(T2Next)

----------------------------------------------------------------------------
(* getProxyConfig on its own: every file with a short proxies list *)

SelEntries ==
    {ProxyConf(pr, sHostP, port, sEmpty, sEmpty, u) :
        pr \in {SOCKS5, sHttp}, port \in 1..MaxProxies, u \in BOOLEAN}

SelFiles ==
    {Unreadable, Malformed} \cup
    {Config(sV1, dialerL, ps) : ps \in UNION {[1..n -> SelEntries] : n \in 0..MaxProxies}}

InitSelect ==
    /\ loopVarPerIter \in BOOLEAN
    /\ selIn \in SelFiles
    /\ selOut = [done |-> FALSE]
    /\ LifeIdle /\ RelayIdle /\ FpIdle /\ WatchIdle

Select ==
    /\ ~selOut.done
    /\ selOut' = [done |-> TRUE, res |-> getProxyConfig(selIn, loopVarPerIter)]
    /\ UNCHANGED <<loopVarPerIter, lifeVars, relayVars, selIn, fpIn, fpOut, watchVars>>

NextSelect == Select

SpecSelect == InitSelect /\ [][NextSelect]_vars

----------------------------------------------------------------------------
(* Vocabulary of the claims, stated on the file and on the instances rather *)
(* than through the operators of the reload loop                            *)

Max(S) == CHOOSE x \in S : \A y \in S : y <= x

enabledIdx(f) == {k \in DOMAIN f.Proxies : f.Proxies[k].Use}

\* the five fields of a proxy endpoint
endpoint(p) == <<p.Protocol, p.Server, p.Port, p.Username, p.Password>>

\* the step of the reload goroutine that ends line 308-314
ReloadDecides == proc = "running" /\ rl.pc = "parse" /\ (rl' # rl \/ proc' # proc)

\* the attempt leaves the generation alone and goes back to <-modify
BackToIdleUntouched ==
    /\ proc' = "running"
    /\ rl' = rlWait
    /\ dialerConfig' = dialerConfig /\ proxyConfig' = proxyConfig
    /\ instances' = instances

\* instance i was started by a reload that changed only proxy.port
portOnly(i) ==
    /\ i > 1
    /\ instances[i].dialerConfig = instances[i-1].dialerConfig
    /\ endpoint([instances[i].proxyConfig EXCEPT !.Port = 0])
         = endpoint([instances[i-1].proxyConfig EXCEPT !.Port = 0])
    /\ instances[i].proxyConfig.Port # instances[i-1].proxyConfig.Port

\* C1: a reload that changes only proxy.port stops the old instance exactly
\* once, starts exactly one new instance, and that instance ends up with a
\* bound listener: once the old instance has shut down and the new one has
\* called ListenAndServe (and has not been stopped itself), it is serving.
C1_PortChangeRestartsOnce ==
    \A i \in Insts :
        ( /\ portOnly(i)
          /\ instances[i-1].sd = "done"
          /\ instances[i].pc \in {"serving", "returned"}
          /\ instances[i].stops = 0 )
        => /\ instances[i-1].stops = 1
           /\ instances[i].listener = "bound"

\* C2: a reload attempt that selects the dialer endpoint and the proxy endpoint
\* of the running generation sends no stop signal, starts no instance and
\* leaves the recorded selection as it is.
C2_NoChangeNoRestart ==
    [][ ( /\ ReloadDecides
          /\ IsConfig(file)
          /\ LET r == getProxyConfig(file, loopVarPerIter) IN
               /\ ~r.panic /\ ~r.nil
               /\ r.dialer = dialerConfig
               /\ endpoint(r.proxy) = endpoint(proxyConfig) )
        => BackToIdleUntouched ]_vars

\* the file was rewritten with another version only, the attempt found no change
C2_Witness ==
    /\ proc = "running" /\ rl = rlWait
    /\ writes = 1 /\ file = cfgA2
    /\ history = <<[met |-> "selected", changed |-> FALSE]>>
    /\ Len(instances) = 1
    /\ endpoint(proxyConfig) = endpoint(pxA)

\* C3: an unreadable or unparseable file met by a reload attempt aborts only
\* that attempt: the process keeps running.
C3_ParseFailureIsLocal ==
    \A k \in DOMAIN history : history[k].met = "unparsed" => proc = "running"

\* C4: a selected proxy that is not socks5 ends the process at startup, and
\* aborts only the attempt during a reload.
C4_ProtocolRejection ==
    /\ (writes = 0 /\ history = <<>> /\ IsConfig(file) /\ enabledIdx(file) # {}
          /\ file.Proxies[Max(enabledIdx(file))].Protocol # SOCKS5)
       => proc \in {"boot", "panic", "fatal"}
    /\ \A k \in DOMAIN history : history[k].met = "protocol" => proc = "running"

\* C5: a reload attempt that finds no proxy with use = true goes back to
\* waiting with no stop signal sent, no instance started and the recorded
\* selection unchanged.
C5_NoProxyKeepsGeneration ==
    [][ ( /\ ReloadDecides
          /\ IsConfig(file)
          /\ enabledIdx(file) = {} )
        => BackToIdleUntouched ]_vars

\* an attempt found no enabled proxy, and the next one restarted on a new port
C5_Witness ==
    /\ Len(history) = 2
    /\ history[1] = [met |-> "none", changed |-> FALSE]
    /\ history[2] = [met |-> "selected", changed |-> TRUE]
    /\ Len(instances) = 2
    /\ file = cfgB /\ endpoint(proxyConfig) = endpoint(pxB)

\* C6: getProxyConfig returns the last entry with use = true, and none iff
\* no entry has use = true.
C6_LastEnabledWins ==
    (selOut.done /\ ~selOut.res.panic) =>
        /\ selOut.res.nil <=> (enabledIdx(selIn) = {})
        /\ enabledIdx(selIn) # {} =>
              endpoint(selOut.res.proxy)
                 = endpoint(selIn.Proxies[Max(enabledIdx(selIn))])

\* C10: every dial of an instance goes through the dialer built from the
\* proxy endpoint that instance was started with, and neither that endpoint
\* nor the listen address of a started instance ever changes.
C10_InstanceKeepsItsSelection ==
    /\ [](lastDial.inst # 0 =>
            /\ lastDial.via.addr = instances[lastDial.inst].proxyConfig.Server
                    \o sColon \o Dec(instances[lastDial.inst].proxyConfig.Port)
            /\ lastDial.via.auth.User = instances[lastDial.inst].proxyConfig.Username)
    /\ [][\A i \in Insts :
            /\ instances'[i].dialerConfig = instances[i].dialerConfig
            /\ instances'[i].proxyConfig = instances[i].proxyConfig
            /\ instances[i].pc # "setup" =>
                 /\ instances'[i].Addr = instances[i].Addr
                 /\ instances'[i].Addr = instances[i].dialerConfig.Server
                       \o sColon \o Dec(instances[i].dialerConfig.Port)
                 /\ instances'[i].dialer = instances[i].dialer]_vars

\* the first instance, still serving after a reload recorded another proxy
\* port, dials its own proxy
C10_Witness ==
    /\ lastDial.inst = 1 /\ lastDial.gen = 2
    /\ endpoint(instances[1].proxyConfig) = endpoint(pxA)
    /\ endpoint(proxyConfig) = endpoint(pxB)
    /\ lastDial.via.addr = proxyAddr(pxA)

IsPrefix(a, b) == Len(a) <= Len(b) /\ a = SubSeq(b, 1, Len(a))

loopStarted(t) == t.pc # "off"
loopEnded(t)   == t.pc \in {"defer", "defer2", "done"}

\* C7: on a CONNECT whose dial succeeded the 200 line is written and flushed
\* before either copy loop is started, so whatever the client receives begins
\* with the whole 200 line; after it come exactly the bytes of the upstream, in
\* order, and the upstream receives exactly the bytes of the client, in order.
C7_TunnelBytes ==
    /\ (loopStarted(t1) \/ loopStarted(t2)) =>
          /\ h.method = "CONNECT" /\ h.dial = "ok" /\ h.hijacked
          /\ h.pc \in {"go2", "done"}
          /\ ~client.broken => IsPrefix(Line200, client.recv)
    /\ client.recv # <<>> => IsPrefix(Line200, client.recv)
    /\ IsPrefix(client.recv, Line200 \o dest.out)
    /\ IsPrefix(dest.recv, client.out)

\* both peers sent MaxBytes bytes and each received the other's, after the 200 line
C7_Witness ==
    /\ h.method = "CONNECT" /\ h.pc = "done"
    /\ Len(dest.out) = MaxBytes /\ Len(client.out) = MaxBytes
    /\ client.recv = Line200 \o dest.out
    /\ dest.recv = client.out
    /\ dest.out[1] # dest.out[2]

\* C8: once either copy loop of a tunnel has terminated, both connections
\* are eventually closed and both loops have eventually terminated.
C8_TunnelTearsDown ==
    (loopEnded(t1) \/ loopEnded(t2))
        ~> ( /\ client.st = "closed" /\ dest.st = "closed"
             /\ t1.pc = "done" /\ t2.pc = "done" )

\* the upstream closed, the client never did, and the whole tunnel is down
C8_Witness ==
    /\ dest.eof /\ ~client.eof /\ ~client.broken
    /\ client.st = "closed" /\ dest.st = "closed"
    /\ t1.pc = "done" /\ t2.pc = "done"

\* C9: after a failed dial the CONNECT path answers 503 with the connection
\* not hijacked, no 200 line written and no copy loop started, and the
\* forwarding path answers 503 with nothing of the upstream written.
C9_DialFailure ==
    h.dial = "failed" =>
        /\ h.pc = "done"
        /\ h.w.status = 503
        /\ h.w.headers = httpError(503).headers /\ h.w.body = httpError(503).body
        /\ h.resp = noResp
        /\ ~h.hijacked /\ h.bufW = <<>> /\ client.recv = <<>>
        /\ client.st = "open" /\ dest.st = "none"
        /\ ~loopStarted(t1) /\ ~loopStarted(t2)

\* a CONNECT whose dial failed has been answered
C9_Witness ==
    /\ h.method = "CONNECT" /\ h.dial = "failed" /\ h.pc = "done"
    /\ h.w.status = 503

----------------------------------------------------------------------------
(* The fingerprints on their own: every pair of proxy endpoints over short *)
(* field values                                                            *)

\* the strings of at most MaxFieldLen bytes over "u" and ":"
FpStrings == UNION {[1..n -> {117, 58}] : n \in 0..MaxFieldLen}

FpEndpoints ==
    {ProxyConf(SOCKS5, srv, port, u, w, TRUE) :
        srv \in {sHostP, sHostL}, port \in {1080, 1081},
        u \in FpStrings, w \in FpStrings}

InitFingerprint ==
    /\ loopVarPerIter = TRUE
    /\ fpIn \in FpEndpoints \X FpEndpoints
    /\ fpOut = [done |-> FALSE]
    /\ LifeIdle /\ RelayIdle /\ SelIdle /\ WatchIdle

\* lines 56-59 on both endpoints
Fingerprint ==
    /\ ~fpOut.done
    /\ fpOut' = [done |-> TRUE,
                 str |-> <<proxyConfString(fpIn[1]), proxyConfString(fpIn[2])>>,
                 hash |-> <<getProxyConfHash(fpIn[1]), getProxyConfHash(fpIn[2])>>]
    /\ UNCHANGED <<loopVarPerIter, lifeVars, relayVars, selIn, selOut, fpIn, watchVars>>

NextFingerprint == Fingerprint

SpecFingerprint == InitFingerprint /\ [][NextFingerprint]_vars

\* C11: endpoints with the same five fields have the same canonical string
\* and digest, and endpoints that differ in a field have different canonical
\* strings.
C11_CanonicalString ==
    fpOut.done =>
        /\ endpoint(fpIn[1]) = endpoint(fpIn[2]) =>
              fpOut.str[1] = fpOut.str[2] /\ fpOut.hash[1] = fpOut.hash[2]
        /\ endpoint(fpIn[1]) # endpoint(fpIn[2]) => fpOut.str[1] # fpOut.str[2]

----------------------------------------------------------------------------
(* The watch goroutine with its sleep, and the write events of a burst *)

WatchFiles == {cfgA, cfgB}

\* the environment writes the file: one fsnotify Write event.  burst.late:
\* some event arrived after the sleep that followed the first one had ended.
BurstWrite(c) ==
    /\ proc = "running"
    /\ writes < MaxWrites
    /\ file' = c
    /\ writes' = writes + 1
    /\ events' = events + 1
    /\ burst' = [burst EXCEPT !.late = @ \/ burst.woke]
    /\ UNCHANGED <<loopVarPerIter, proc, wpc, rl, dialerConfig, proxyConfig,
                   instances, history, lastDial, relayVars, selVars>>

\* lines 258-263: one event is received and, being a Write, slept on
WatchTake ==
    /\ proc = "running"
    /\ wpc = "select"
    /\ events > 0
    /\ events' = events - 1
    /\ wpc' = "sleep"
    /\ UNCHANGED <<loopVarPerIter, proc, file, writes, rl, dialerConfig, proxyConfig,
                   instances, history, lastDial, relayVars, selVars, watchVars>>

\* lines 263-265: time.Sleep returns; the goroutine is at notify <- 1.  The
\* events that arrived meanwhile stay queued in watcher.Events.
WatchWake ==
    /\ proc = "running"
    /\ wpc = "sleep"
    /\ wpc' = "notify"
    /\ burst' = [burst EXCEPT !.woke = TRUE]
    /\ UNCHANGED <<loopVarPerIter, proc, file, writes, events, rl, dialerConfig,
                   proxyConfig, instances, history, lastDial, relayVars, selVars>>

InitWatch ==
    /\ loopVarPerIter \in BOOLEAN
    /\ proc = "boot"
    /\ file = cfgA
    /\ writes = 0 /\ events = 0
    /\ wpc = "off" /\ rl = [pc |-> "off"]
    /\ dialerConfig = DialerConfig(sEmpty, 0) /\ proxyConfig = zeroProxyConf
    /\ instances = <<>> /\ history = <<>> /\ lastDial = NoDial
    /\ RelayIdle /\ SelIdle /\ FpIdle /\ WatchIdle

NextWatch ==
    \/ MainStart
    \/ \E c \in WatchFiles : BurstWrite(c)
    \/ WatchTake
    \/ WatchWake
    \/ ModifyHandoff
    \/ ReloadParse
    \/ \E i \in Insts : StopHandoff(i)
    \/ ReloadStart
    \/ \E i \in Insts : RunServerSetup(i)
    \/ \E i \in Insts : RunServerListen(i)
    \/ \E i \in Insts : ServerShutdown(i)

SpecWatch == InitWatch /\ [][NextWatch]_vars

\* the notifications sent on modify so far: one per reload attempt begun
notificationsSent == Len(history) + (IF rl.pc = "parse" THEN 1 ELSE 0)

\* C12: write events that all arrive before the sleep following the first of
\* them has ended cause exactly one notification, hence one reload attempt:
\* once the watch goroutine is back at its select with no event left, one
\* notification has been sent.
C12_BurstCoalesced ==
    ( /\ proc = "running"
      /\ writes >= 2 /\ ~burst.late
      /\ events = 0 /\ wpc = "select" )
    => notificationsSent = 1

\* C13: a Server Instance whose first bind fails ends the process: no
\* instance has failed to bind while the process keeps running.
C13_BindFailureFatal ==
    \A i \in Insts :
        ( /\ instances[i].listener = "failed"
          /\ i = Len(instances)
          /\ dialerConfig = instances[i].dialerConfig
          /\ proxyConfig = instances[i].proxyConfig )
        => proc # "running"

\* C14: when writing or flushing the 200 line to the hijacked connection
\* fails (the client has not received the line), both connections are closed
\* and no copy loop is started.
C14_WriteFailureAborts ==
    ( /\ h.method = "CONNECT" /\ h.hijacked /\ h.pc # "write"
      /\ ~IsPrefix(Line200, client.recv) )
    => /\ client.st = "closed" /\ dest.st = "closed"
       /\ ~loopStarted(t1) /\ ~loopStarted(t2)

\* C20: an upstream connection that was dialed is closed when the CONNECT
\* handler returns, or has been handed to both copy loops, and a copy loop
\* that has terminated has closed it.
C20_UpstreamNotLeaked ==
    /\ (h.method = "CONNECT" /\ h.dial = "ok" /\ h.pc = "done") =>
          \/ dest.st = "closed"
          \/ loopStarted(t1) /\ loopStarted(t2)
    /\ t1.pc = "done" => dest.st = "closed"
    /\ t2.pc = "done" => dest.st = "closed"

\* the writer was no Hijacker: 500 answered, the dialed connection closed
C20_Witness ==
    /\ h.method = "CONNECT" /\ h.dial = "ok" /\ h.pc = "done"
    /\ ~h.hijacked /\ h.w.status = 500
    /\ dest.st = "closed"
    /\ ~loopStarted(t1) /\ ~loopStarted(t2)

\* the instances that have received no stop signal
unstopped == {i \in Insts : instances[i].stops = 0}

\* C17: with one stop channel shared by all instances, at most one started
\* instance has received no stop signal and it is the latest one; every stop
\* signal is received by the instance of the recorded generation, once; and
\* a new instance is started, and the new selection recorded, only after the
\* old instance has received its stop signal.
C17_StopReachesCurrent ==
    /\ [](/\ Cardinality(unstopped) <= 1
          /\ \A i \in Insts : instances[i].stops <= 1
          /\ \A i \in unstopped : i = Len(instances)
          /\ rl.pc = "start" =>
                /\ instances[Len(instances)].stops = 1
                /\ dialerConfig = instances[Len(instances)].dialerConfig
                /\ proxyConfig = instances[Len(instances)].proxyConfig)
    /\ [][ /\ \A i \in Insts :
                instances'[i].stops # instances[i].stops =>
                    /\ i = Len(instances)
                    /\ Len(instances') = Len(instances)
                    /\ instances[i].dialerConfig = dialerConfig
                    /\ instances[i].proxyConfig = proxyConfig
                    /\ UNCHANGED <<dialerConfig, proxyConfig>>
           /\ Len(instances') > Len(instances) /\ instances # <<>> =>
                unstopped = {} ]_vars

\* two reloads with a change: the first two instances have each received one
\* stop signal and the third has received none
C17_Witness ==
    /\ proc = "running"
    /\ Len(instances) = 3
    /\ instances[1].stops = 1 /\ instances[2].stops = 1
    /\ unstopped = {3}

\* C16: the recorded running generation (dialerConfig, proxyConfig) has one
\* owner.  It is written at startup, before the goroutines exist, and after
\* that only by a step of the reload goroutine (lines 317-318); such a write
\* is no step of the watch goroutine or of an instance, and it changes
\* neither the copies an instance holds nor the dialer its handlers use.
C16_RecordedStateHasOneOwner ==
    [][ (dialerConfig' # dialerConfig \/ proxyConfig' # proxyConfig) =>
            /\ \/ proc = "boot" /\ instances = <<>> /\ rl.pc = "off"
               \/ proc = "running" /\ rl.pc = "start" /\ rl' = rlWait
            /\ wpc = "off" \/ wpc' = wpc
            /\ events' = events
            /\ \A i \in Insts :
                  /\ instances'[i] = instances[i]
                  /\ handlerDialer(i)' = handlerDialer(i) ]_vars

\* the reload goroutine has recorded another generation while the first
\* instance, holding its copies, is still serving
C16_Witness ==
    /\ proc = "running" /\ rl.pc = "wait"
    /\ Len(instances) = 2
    /\ instances[1].pc = "serving"
    /\ instances[1].proxyConfig # proxyConfig
    /\ instances[2].proxyConfig = proxyConfig

----------------------------------------------------------------------------
(* The pipeline under fair scheduling: every goroutine that can take a step
   eventually takes it.  The environment need not write the file, and no
   request need arrive. *)

\* a step of main or of one of its goroutines other than the parse step of
\* the reload goroutine: the watch goroutine, the channel hand-offs, the
\* start of an instance, a runServer and its stop receiver
GoroutineStep ==
    \/ MainStart
    \/ WatchEvent
    \/ ModifyHandoff
    \/ \E i \in Insts : StopHandoff(i)
    \/ ReloadStart
    \/ \E i \in Insts : RunServerSetup(i)
    \/ \E i \in Insts : RunServerListen(i)
    \/ \E i \in Insts : ServerShutdown(i)

\* ReloadParse always appends to history, so it is enabled exactly when its
\* guard holds: this is WF_vars(ReloadParse) with the guard written in place
\* of ENABLED
ReloadParseFair ==
    \/ []<>~(proc = "running" /\ rl.pc = "parse")
    \/ []<><<ReloadParse>>_vars

\* what the file is rewritten to: another proxy, the first one again, another
\* listen address, no enabled proxy, an enabled proxy that is not socks5
PipelineFiles == {cfgA, cfgB, cfgDialer, cfgNone, cfgHttp}

\* the pipeline without the requests: main, the file, the goroutines
NextPipeline ==
    \/ \E c \in PipelineFiles : WriteFile(c)
    \/ GoroutineStep
    \/ ReloadParse

SpecFair ==
    /\ Init /\ [][NextPipeline]_vars
    /\ WF_vars(GoroutineStep)
    /\ ReloadParseFair

\* C19: unless a reload attempt ends the process, a notification the watch
\* goroutine is sending is eventually received, a stop signal the reload
\* loop is sending is eventually received, and the reload loop returns to
\* waiting for the next notification.
C19_PipelineNeverDeadlocks ==
    /\ (wpc = "notify") ~> (wpc = "select" \/ proc # "running")
    /\ (rl.pc = "stop") ~> (rl.pc = "start")
    /\ (rl.pc \in {"parse", "stop", "start"}) ~> (rl.pc = "wait" \/ proc # "running")

\* an instance whose listener failed to bind has received its stop signal,
\* and the reload loop is waiting again
C19_Witness ==
    /\ proc = "running" /\ rl.pc = "wait"
    /\ \E i \in Insts : instances[i].listener = "failed" /\ instances[i].stops = 1

\* the enabled entries of f whose protocol is not socks5
unsupportedIdx(f) == {k \in enabledIdx(f) : f.Proxies[k].Protocol # SOCKS5}

\* C18 as stated: a configuration whose last enabled entry is socks5 is
\* accepted and yields that entry, even when an earlier enabled entry has
\* another protocol.
C18_SelectedEntryDecides ==
    ( /\ selOut.done /\ IsConfig(selIn)
      /\ enabledIdx(selIn) # {}
      /\ selIn.Proxies[Max(enabledIdx(selIn))].Protocol = SOCKS5
      /\ unsupportedIdx(selIn) # {} )
    => /\ ~selOut.res.panic
       /\ ~selOut.res.nil
       /\ endpoint(selOut.res.proxy)
             = endpoint(selIn.Proxies[Max(enabledIdx(selIn))])

\* C18: a parsed configuration is rejected for its protocol exactly when
\* some entry with use = true has a protocol other than socks5, whether or
\* not that entry is the last enabled one.
C18_AnyEnabledEntryDecides ==
    (selOut.done /\ IsConfig(selIn)) =>
        (selOut.res.panic <=> unsupportedIdx(selIn) # {})

\* an enabled http entry overridden by a later enabled socks5 entry: rejected
C18_Witness ==
    /\ selOut.done /\ IsConfig(selIn)
    /\ Len(selIn.Proxies) = 2
    /\ selIn.Proxies[1].Use /\ selIn.Proxies[1].Protocol = sHttp
    /\ selIn.Proxies[2].Use /\ selIn.Proxies[2].Protocol = SOCKS5
    /\ selOut.res.panic

----------------------------------------------------------------------------
(* An instance with a tunnel through it, and a reload that replaces the
   instance: the lifecycle of main and one CONNECT request together *)

\* lines 232-239 and 121: instance i accepts a connection and dispatches a
\* CONNECT request to the tunneling handler
AcceptConnect(i) ==
    /\ proc = "running"
    /\ instances[i].pc = "serving"
    /\ h.pc = "off"
    /\ h' = newHandler("CONNECT")
    /\ client' = openConn
    /\ lastDial' = [inst |-> i, gen |-> Len(instances), via |-> handlerDialer(i)]
    /\ UNCHANGED <<loopVarPerIter, proc, file, writes, events, wpc, rl, dialerConfig,
                   proxyConfig, instances, history, dest, t1, t2, selVars, watchVars>>

\* the one rewrite of the file: another proxy port
DrainWrite == writes = 0 /\ WriteFile(cfgB)

\* cfgA and cfgB have one enabled entry each, the last of the list: the two
\* loop-variable semantics select the same endpoint
InitDrain ==
    /\ loopVarPerIter = TRUE
    /\ proc = "boot"
    /\ file = cfgA
    /\ writes = 0 /\ events = 0
    /\ wpc = "off" /\ rl = [pc |-> "off"]
    /\ dialerConfig = DialerConfig(sEmpty, 0) /\ proxyConfig = zeroProxyConf
    /\ instances = <<>> /\ history = <<>> /\ lastDial = NoDial
    /\ RelayIdle /\ SelIdle /\ FpIdle /\ WatchIdle

NextDrain ==
    \/ MainStart
    \/ DrainWrite
    \/ WatchEvent
    \/ ModifyHandoff
    \/ ReloadParse
    \/ \E i \in Insts : StopHandoff(i)
    \/ ReloadStart
    \/ \E i \in Insts : RunServerSetup(i)
    \/ \E i \in Insts : RunServerListen(i)
    \/ \E i \in Insts : ServerShutdown(i)
    \/ \E i \in Insts : AcceptConnect(i)
    \/ HandlerDial \/ HandlerHijack \/ HandlerRespond \/ HandlerGo1 \/ HandlerGo2
    \/ T1Next
    \/ T2Next
    \/ h.pc # "off" /\ ClientSends
    \/ h.pc # "off" /\ ClientCloses
    \/ DestSends
    \/ DestCloses

SpecDrain == InitDrain /\ [][NextDrain]_vars

\* the tunnel is established and neither peer has closed or failed
tunnelUp ==
    /\ h.pc # "off" /\ h.hijacked
    /\ loopStarted(t1) /\ loopStarted(t2)
    /\ ~client.eof /\ ~client.broken
    /\ ~dest.eof /\ ~dest.broken

\* C15: the shutdown of an instance changes nothing of a tunnel established
\* through it, and as long as neither peer has closed or failed the two
\* connections of the tunnel are open and both copy loops are running,
\* whatever has become of the instance and of any newer generation.
C15_TunnelSurvivesShutdown ==
    /\ [](tunnelUp =>
            /\ client.st = "open" /\ dest.st = "open"
            /\ ~loopEnded(t1) /\ ~loopEnded(t2))
    /\ [][ ( /\ h.pc # "off" /\ h.hijacked
             /\ \E i \in Insts : instances[i].sd = "shutdown"
                                 /\ instances'[i].sd = "done" )
           => UNCHANGED <<h, client, dest, t1, t2>> ]_vars

\* the tunnel of the first instance carries bytes both ways after that
\* instance has shut down and the next generation is serving
C15_Witness ==
    /\ tunnelUp
    /\ lastDial.inst = 1
    /\ Len(instances) = 2
    /\ instances[1].sd = "done" /\ instances[1].listener = "closed"
    /\ instances[2].pc = "serving"
    /\ client.st = "open" /\ dest.st = "open"
    /\ t1.pc = "write" /\ t2.pc = "write"

====
